---- MODULE Spec2Model ----
(***************************************************************************)
(* The vertical scroll area of emigui (containers/scroll_area.rs):         *)
(* ScrollArea::prepare and ScrollArea::finish, the per-identity State kept *)
(* in memory().scroll_areas, and the collaborators finish() talks to (the  *)
(* input snapshot, the process-wide active_id slot, the paint list).       *)
(*                                                                         *)
(* f32 values are modelled as exact rationals <<n, d>> with d > 0 in       *)
(* lowest terms, so that mouse_move.y * content_size.y / inner_rect.height *)
(* and the remaps are computed as the code computes them.                  *)
(***************************************************************************)
EXTENDS Integers, Sequences, FiniteSets, TLC

VARIABLES
    scroll_areas,   \* memory().scroll_areas : Id -> State (a partial map)
    active_id,      \* memory().active_id : None or an interaction id
    input,          \* ui.input() : the frame's input snapshot
    in_frame,       \* a frame has begun and has not ended
    stack,          \* the Prepared sessions of the show() calls in progress
    last,           \* per id: what this frame's finish() did (None before it ran)
    prev,           \* per id: summary of the previous frame's finish()
    scenario,       \* how many frames of the wheel scenario have run so far
    tree,           \* the interface: per area id, its configuration and parent ui
    env             \* the value sets the frames draw their inputs from

vars == <<scroll_areas, active_id, input, in_frame, stack, last, prev, scenario, tree, env>>

\* Option<T>: None is the empty tuple, Some(x) the tuple <<x>>
None == << >>
Some(x) == <<x>>

----------------------------------------------------------------------------
(* f32 arithmetic, as exact rationals *)

Abs(i) == IF i < 0 THEN -i ELSE i

RECURSIVE Gcd(_, _)
Gcd(a, b) == IF b = 0 THEN a ELSE Gcd(b, a % b)

\* the rational n/d in lowest terms with a positive denominator (d # 0)
Rat(n, d) ==
    LET g == Gcd(Abs(n), Abs(d))
        s == IF d < 0 THEN -1 ELSE 1
    IN  <<(s * n) \div g, (s * d) \div g>>

F(i) == <<i, 1>>

add(a, b) == Rat(a[1] * b[2] + b[1] * a[2], a[2] * b[2])
sub(a, b) == Rat(a[1] * b[2] - b[1] * a[2], a[2] * b[2])
mul(a, b) == Rat(a[1] * b[1], a[2] * b[2])
div(a, b) == Rat(a[1] * b[2], a[2] * b[1])
neg(a)    == <<-a[1], a[2]>>
le(a, b)  == a[1] * b[2] <= b[1] * a[2]
lt(a, b)  == a[1] * b[2] < b[1] * a[2]
max(a, b) == IF le(a, b) THEN b ELSE a
min(a, b) == IF le(a, b) THEN a ELSE b

----------------------------------------------------------------------------
(* Vec2, Pos2, Rect and the remaps of the math module *)

vec2(x, y) == [x |-> x, y |-> y]
pos2(x, y) == [x |-> x, y |-> y]
vsub(a, b) == [x |-> sub(a.x, b.x), y |-> sub(a.y, b.y)]
vadd(a, b) == [x |-> add(a.x, b.x), y |-> add(a.y, b.y)]

from_min_max(mn, mx) == [min |-> mn, max |-> mx]
from_min_size(mn, size) == [min |-> mn, max |-> vadd(mn, size)]
width(r)  == sub(r.max.x, r.min.x)
height(r) == sub(r.max.y, r.min.y)
size(r)   == vec2(width(r), height(r))
left(r)   == r.min.x
right(r)  == r.max.x
top(r)    == r.min.y
bottom(r) == r.max.y
contains(r, p) ==
    /\ le(r.min.x, p.x) /\ le(p.x, r.max.x)
    /\ le(r.min.y, p.y) /\ le(p.y, r.max.y)
intersect(a, b) ==
    [min |-> pos2(max(a.min.x, b.min.x), max(a.min.y, b.min.y)),
     max |-> pos2(min(a.max.x, b.max.x), min(a.max.y, b.max.y))]
expand(r, amnt) ==
    [min |-> pos2(sub(r.min.x, amnt), sub(r.min.y, amnt)),
     max |-> pos2(add(r.max.x, amnt), add(r.max.y, amnt))]

\* a range a..=b is the pair <<a, b>>
lerp(range, t) == add(mul(sub(F(1), t), range[1]), mul(t, range[2]))

\* linear map of x from one range to another (from is not empty)
remap(x, from, to) ==
    lerp(to, div(sub(x, from[1]), sub(from[2], from[1])))

\* the same, clamped at the ends; a zero-length from maps to to's lower bound
remap_clamp(x, from, to) ==
    IF from[1] = from[2] \/ le(x, from[1]) THEN to[1]
    ELSE IF le(from[2], x) THEN to[2]
    ELSE remap(x, from, to)

----------------------------------------------------------------------------
(* Bounds *)

\* offsets are followed as long as their denominator is at most this
MaxDenominator == 4

----------------------------------------------------------------------------
(* Identities and the interaction register *)

\* id.with("area"), id.with("vertical")
with(id, sub_id) == <<id, sub_id>>

\* another widget of the interface, holding or claiming the active slot
Other == <<"other", "widget">>

\* ui.contains_mouse(rect): the pointer is over rect
contains_mouse(rect, inp) ==
    /\ inp.mouse_pos # None
    /\ contains(rect, inp.mouse_pos[1])

\* ui.interact_rect(rect, id): InteractInfo.active and the slot afterwards.
\* A press over the rectangle claims the empty slot (first claim wins);
\* otherwise the region is active iff it already holds the slot.
interact_rect(rect, interaction_id, inp, slot) ==
    IF inp.mouse_pressed
    THEN IF contains_mouse(rect, inp) /\ slot = None
         THEN [active |-> TRUE, active_id |-> interaction_id]
         ELSE [active |-> FALSE, active_id |-> slot]
    ELSE [active |-> (slot = interaction_id), active_id |-> slot]

----------------------------------------------------------------------------
(* State and the store memory().scroll_areas *)

\* State::default()
DefaultState == [offset |-> vec2(F(0), F(0)), show_scroll |-> FALSE]

\* (mutant) the lookup misses: every frame starts from the default state
LoadState_missed(store, id) == DefaultState

\* ctx.memory().scroll_areas.get(&id).cloned().unwrap_or_default()
LoadState(store, id) ==
    IF id \in DOMAIN store THEN store[id] ELSE DefaultState

\* (mutant) the store is replaced by the one entry written
InsertState_alone(store, id, state) == [k \in {id} |-> state]

\* (mutant) the state is never written back
InsertState_dropped(store, id, state) == store

\* ui.memory().scroll_areas.insert(id, state)
InsertState(store, id, state) ==
    [k \in (DOMAIN store) \cup {id} |-> IF k = id THEN state ELSE store[k]]

max_scroll_bar_width == 16

\* (mutant) auto_hide_scroll is ignored
current_scroll_bar_width_if_shown(state, auto_hide_scroll) ==
    IF state.show_scroll
    THEN F(max_scroll_bar_width)
    ELSE F(0)

\* let current_scroll_bar_width = if state.show_scroll || !auto_hide_scroll ...
current_scroll_bar_width(state, auto_hide_scroll) ==
    IF state.show_scroll \/ ~auto_hide_scroll
    THEN F(max_scroll_bar_width)
    ELSE F(0)

\* (mutant) the right edge of the intersection is pulled in
content_clip_rect_of_intersection(parent_clip_rect, inner_rect, bar_width) ==
    LET clip0 == intersect(parent_clip_rect, inner_rect)
    IN  [clip0 EXCEPT !.max.x = sub(clip0.max.x, bar_width)]

\* let mut content_clip_rect = ui.clip_rect().intersect(inner_rect);
\* content_clip_rect.max.x = ui.clip_rect().max.x - current_scroll_bar_width;
content_clip_rect(parent_clip_rect, inner_rect, bar_width) ==
    [intersect(parent_clip_rect, inner_rect)
        EXCEPT !.max.x = sub(parent_clip_rect.max.x, bar_width)]

\* ScrollArea::prepare: the Prepared session for area id under the parent ui
\* (available rectangle and clip rectangle) and the configuration cfg
prepare(cfg, ui, id, store) ==
    LET state      == LoadState(store, id)
        bar_width  == current_scroll_bar_width(state, cfg.auto_hide_scroll)
        outer_size == vec2(width(ui.available),
                           min(height(ui.available), cfg.max_height))
        inner_size == vsub(outer_size, vec2(bar_width, F(0)))
        inner_rect == from_min_size(ui.available.min, inner_size)
    IN  [id |-> id,
         state |-> state,
         always_show_scroll |-> cfg.always_show_scroll,
         inner_rect |-> inner_rect,
         current_scroll_bar_width |-> bar_width,
         content_ui |-> [min |-> vsub(inner_rect.min, state.offset),
                         width |-> inner_size.x,
                         clip_rect |-> content_clip_rect(ui.clip_rect, inner_rect,
                                                         bar_width)]]

----------------------------------------------------------------------------
(* ScrollArea::finish.  The run of finish is a record s that each step      *)
(* extends or updates, in the order of the source: s.offset_y is            *)
(* state.offset.y and s.active_id is memory().active_id as the run goes on. *)

The(S) == CHOOSE x \in S : TRUE

\* (mutant) >= for >
content_is_too_small_or_equal(content_size, inner_rect) ==
    le(height(inner_rect), content_size.y)

\* let content_is_too_small = content_size.y > inner_rect.height();
content_is_too_small(content_size, inner_rect) ==
    lt(height(inner_rect), content_size.y)

\* lines 120-129: the session taken apart, and the measured content size
start(prepared, content_size, inp, slot) ==
    [id |-> prepared.id,
     loaded |-> prepared.state,
     always_show_scroll |-> prepared.always_show_scroll,
     current_scroll_bar_width |-> prepared.current_scroll_bar_width,
     content_size |-> content_size,
     input |-> inp,
     slot_before |-> slot,
     active_id |-> slot,
     offset_y |-> prepared.state.offset.y,
     \* inner_rect, with its width expanded to fit the content
     inner_rect |->
        from_min_size(prepared.inner_rect.min,
                      vec2(max(width(prepared.inner_rect), content_size.x),
                           height(prepared.inner_rect)))]

\* lines 139-144: outer_rect and content_is_too_small
measure(s) ==
    [outer_rect |->
        from_min_size(s.inner_rect.min,
                      vadd(size(s.inner_rect),
                           vec2(s.current_scroll_bar_width, F(0)))),
     content_is_too_small |-> content_is_too_small(s.content_size, s.inner_rect)]
    @@ s

\* if content_interact.active { state.offset.y -= ui.input().mouse_move.y; }
drag_contents(offset_y, content_active, inp) ==
    IF content_active THEN sub(offset_y, inp.mouse_move.y) ELSE offset_y

\* (mutant) the content region is interactive whatever the content's height
content_interact_always(s) ==
    [content_interact |->
        interact_rect(s.inner_rect, with(s.id, "area"), s.input, s.active_id)]
    @@ s

\* lines 146-148: the content region is interactive when the content is too small
content_interact(s) ==
    [content_interact |->
        IF s.content_is_too_small
        THEN interact_rect(s.inner_rect, with(s.id, "area"), s.input, s.active_id)
        ELSE [active |-> FALSE, active_id |-> s.active_id]]
    @@ s

\* lines 149-151: drag the contents to scroll
drag_to_scroll(s) ==
    [s EXCEPT !.active_id = s.content_interact.active_id,
              !.offset_y = drag_contents(s.offset_y, s.content_interact.active,
                                         s.input)]

\* ui.contains_mouse(outer_rect) && ui.memory().active_id.is_none()
wheel_scrolls(outer_rect, slot, inp) ==
    contains_mouse(outer_rect, inp) /\ slot = None

\* (mutant) the wheel does not look at the active slot
scroll_wheel_unguarded(offset_y, outer_rect, slot, inp) ==
    IF contains_mouse(outer_rect, inp)
    THEN sub(offset_y, inp.scroll_delta.y)
    ELSE offset_y

\* (mutant) += for -=
scroll_wheel_added(offset_y, outer_rect, slot, inp) ==
    IF wheel_scrolls(outer_rect, slot, inp)
    THEN add(offset_y, inp.scroll_delta.y)
    ELSE offset_y

\* if ... { state.offset.y -= ui.input().scroll_delta.y; }
scroll_wheel(offset_y, outer_rect, slot, inp) ==
    IF wheel_scrolls(outer_rect, slot, inp)
    THEN sub(offset_y, inp.scroll_delta.y)
    ELSE offset_y

\* (mutant) always_show_scroll is ignored
show_scroll_if_too_small(too_small, always_show_scroll) == too_small

\* let show_scroll_this_frame = content_is_too_small || always_show_scroll;
show_scroll_this_frame(too_small, always_show_scroll) ==
    too_small \/ always_show_scroll

\* (mutant) no grace frame
scroll_bar_shown_this_frame(show_this_frame, state) == show_this_frame

\* if show_scroll_this_frame || state.show_scroll { ... the scroll bar ... }
scroll_bar_shown(show_this_frame, state) ==
    show_this_frame \/ state.show_scroll

\* lines 154-160: the wheel, and whether the scroll bar is shown
wheel_step(s) ==
    [dragged |-> s.offset_y,
     wheel_applied |-> wheel_scrolls(s.outer_rect, s.active_id, s.input),
     show_scroll_this_frame |->
        show_scroll_this_frame(s.content_is_too_small, s.always_show_scroll)]
    @@ [s EXCEPT !.offset_y =
            scroll_wheel(s.offset_y, s.outer_rect, s.active_id, s.input)]

visibility(s) ==
    [wheeled |-> s.offset_y,
     shown |-> scroll_bar_shown(s.show_scroll_this_frame, s.loaded)]
    @@ s

\* |content_y| remap_clamp(content_y, 0.0..=content_size.y, top..=bottom)
from_content(content_y, content_size, inner_rect) ==
    remap_clamp(content_y, <<F(0), content_size.y>>,
                <<top(inner_rect), bottom(inner_rect)>>)

\* Rect::from_min_max(pos2(left, from_content(offset.y)),
\*                    pos2(right, from_content(offset.y + inner_rect.height())))
handle_rect_of(offset_y, content_size, inner_rect, outer_rect) ==
    from_min_max(
        pos2(add(right(inner_rect), F(2)),
             from_content(offset_y, content_size, inner_rect)),
        pos2(right(outer_rect),
             from_content(add(offset_y, height(inner_rect)),
                          content_size, inner_rect)))

\* lines 161-178: the geometry of the scroll bar
scroll_bar_rects(s) ==
    [corner_radius |->
        div(sub(right(s.outer_rect), add(right(s.inner_rect), F(2))), F(2)),
     outer_scroll_rect |->
        from_min_max(pos2(add(right(s.inner_rect), F(2)), top(s.inner_rect)),
                     pos2(right(s.outer_rect), bottom(s.inner_rect))),
     handle_rect |->
        handle_rect_of(s.offset_y, s.content_size, s.inner_rect, s.outer_rect)]
    @@ s

\* (mutant) the handle is registered under an identity of its own
handle_interact_own_id(s) ==
    [handle_interact |->
        interact_rect(s.handle_rect, with(s.id, "handle"), s.input, s.active_id)]
    @@ s

\* lines 181-182: let handle_interact = ui.interact_rect(handle_rect, interact_id);
handle_interact(s) ==
    [handle_interact |->
        interact_rect(s.handle_rect, with(s.id, "vertical"), s.input, s.active_id)]
    @@ s

\* (mutant) the track is consulted even when the handle is active
scroll_bg_interact_always(s) ==
    [scroll_bg_interact |->
        IF s.input.mouse_pos # None
        THEN interact_rect(s.outer_scroll_rect, with(s.id, "vertical"), s.input,
                           s.handle_interact.active_id)
        ELSE [active |-> FALSE, active_id |-> s.handle_interact.active_id]]
    @@ s

\* lines 184, 190-192: with a pointer position and the handle not active,
\* let scroll_bg_interact = ui.interact_rect(outer_scroll_rect, interact_id);
scroll_bg_interact(s) ==
    [scroll_bg_interact |->
        IF s.input.mouse_pos # None /\ ~s.handle_interact.active
        THEN interact_rect(s.outer_scroll_rect, with(s.id, "vertical"), s.input,
                           s.handle_interact.active_id)
        ELSE [active |-> FALSE, active_id |-> s.handle_interact.active_id]]
    @@ s

\* (mutant) the pointer's movement is not scaled to content space
drag_handle_unscaled(offset_y, inp, content_size, inner_rect) ==
    IF /\ le(top(inner_rect), inp.mouse_pos[1].y)
       /\ le(inp.mouse_pos[1].y, bottom(inner_rect))
    THEN add(offset_y, inp.mouse_move.y)
    ELSE offset_y

\* handle_interact.active: the offset follows the pointer, scaled to content
drag_handle(offset_y, inp, content_size, inner_rect) ==
    IF /\ le(top(inner_rect), inp.mouse_pos[1].y)
       /\ le(inp.mouse_pos[1].y, bottom(inner_rect))
    THEN add(offset_y,
             div(mul(inp.mouse_move.y, content_size.y), height(inner_rect)))
    ELSE offset_y

\* scroll_bg_interact.active: center the handle at the pointer
click_track(inp, handle_rect, content_size, inner_rect) ==
    remap(sub(inp.mouse_pos[1].y, div(height(handle_rect), F(2))),
          <<top(inner_rect), bottom(inner_rect)>>,
          <<F(0), content_size.y>>)

\* lines 184-200: the handle is dragged, or the track is clicked
scroll_bar_moves(s) ==
    [handle_drag |-> s.input.mouse_pos # None /\ s.handle_interact.active,
     track_click |-> s.scroll_bg_interact.active]
    @@ [s EXCEPT !.active_id = s.scroll_bg_interact.active_id,
                 !.offset_y =
                    IF s.input.mouse_pos = None THEN s.offset_y
                    ELSE IF s.handle_interact.active
                    THEN drag_handle(s.offset_y, s.input, s.content_size,
                                     s.inner_rect)
                    ELSE IF s.scroll_bg_interact.active
                    THEN click_track(s.input, s.handle_rect, s.content_size,
                                     s.inner_rect)
                    ELSE s.offset_y]

\* state.offset.y = state.offset.y.max(0.0);
\* state.offset.y = state.offset.y.min(content_size.y - inner_rect.height());
clamp_shown(offset_y, content_size, inner_rect) ==
    min(max(offset_y, F(0)), sub(content_size.y, height(inner_rect)))

\* lines 202-203: clamp
scroll_bar_clamp(s) ==
    [pre_clamp |-> s.offset_y]
    @@ [s EXCEPT !.offset_y =
            clamp_shown(s.offset_y, s.content_size, s.inner_rect)]

\* (mutant) the handle is painted where it was before the interaction
scroll_bar_paint_delayed(s) ==
    [paint |->
        << [cmd |-> "track", rect |-> s.outer_scroll_rect,
            corner_radius |-> s.corner_radius],
           [cmd |-> "handle",
            rect |-> expand(s.handle_rect, F(-2)),
            corner_radius |-> s.corner_radius] >>]
    @@ s

\* lines 205-227: the new handle rect, and the two paint commands
scroll_bar_paint(s) ==
    [paint |->
        << [cmd |-> "track", rect |-> s.outer_scroll_rect,
            corner_radius |-> s.corner_radius],
           [cmd |-> "handle",
            rect |-> expand(handle_rect_of(s.offset_y, s.content_size,
                                           s.inner_rect, s.outer_rect), F(-2)),
            corner_radius |-> s.corner_radius] >>]
    @@ s

\* the scroll bar block is skipped: nothing is painted or interacted with
scroll_bar_skipped(s) ==
    [handle_interact |-> [active |-> FALSE, active_id |-> s.active_id],
     scroll_bg_interact |-> [active |-> FALSE, active_id |-> s.active_id],
     handle_drag |-> FALSE,
     track_click |-> FALSE,
     pre_clamp |-> s.offset_y,
     paint |-> << >>]
    @@ s

\* lines 160-228: the scroll bar block
scroll_bar(s) ==
    IF s.shown
    THEN LET S1 == {scroll_bar_rects(s)}
             S2 == {handle_interact(s1) : s1 \in S1}
             S3 == {scroll_bg_interact(s2) : s2 \in S2}
             S4 == {scroll_bar_moves(s3) : s3 \in S3}
             S5 == {scroll_bar_clamp(s4) : s4 \in S4}
             S6 == {scroll_bar_paint(s5) : s5 \in S5}
         IN  The(S6)
    ELSE scroll_bar_skipped(s)

\* (mutant) the final clamp in the order of the first one: max, then min
clamp_final_max_first(offset_y, content_size, inner_rect) ==
    min(max(offset_y, F(0)), sub(content_size.y, height(inner_rect)))

\* state.offset.y = state.offset.y.min(content_size.y - inner_rect.height());
\* state.offset.y = state.offset.y.max(0.0);
clamp_final(offset_y, content_size, inner_rect) ==
    max(min(offset_y, sub(content_size.y, height(inner_rect))), F(0))

\* (mutant) show_scroll remembers whether the scroll bar was drawn
commit_drawn(s) ==
    [reserved |-> size(s.outer_rect),
     state |->
        [offset |-> vec2(s.loaded.offset.x,
                         clamp_final(s.offset_y, s.content_size, s.inner_rect)),
         show_scroll |-> s.shown]]
    @@ s

\* lines 235-240: reserve the space, clamp again, remember show_scroll
commit(s) ==
    [reserved |-> size(s.outer_rect),
     state |->
        [offset |-> vec2(s.loaded.offset.x,
                         clamp_final(s.offset_y, s.content_size, s.inner_rect)),
         show_scroll |-> s.show_scroll_this_frame]]
    @@ s

\* ScrollArea::finish for the session prepared, the measured content_size,
\* the frame's input and the active slot as finish finds it: the finished
\* run, whose state is inserted into the store and whose active_id is the
\* slot afterwards
finish(prepared, content_size, inp, slot) ==
    LET S1 == {start(prepared, content_size, inp, slot)}
        S2 == {measure(s1) : s1 \in S1}
        S3 == {content_interact(s2) : s2 \in S2}
        S4 == {drag_to_scroll(s3) : s3 \in S3}
        S5 == {wheel_step(s4) : s4 \in S4}
        S6 == {visibility(s5) : s5 \in S5}
        S7 == {scroll_bar(s6) : s6 \in S6}
        S8 == {commit(s7) : s7 \in S7}
    IN  The(S8)

----------------------------------------------------------------------------
(* The environments: interface trees and the values frames draw inputs from *)

rect_of(x0, y0, x1, y1) == from_min_max(pos2(F(x0), F(y0)), pos2(F(x1), F(y1)))

\* ScrollArea::default(), and the builder's setters applied to it
default_area == [max_height |-> F(200), always_show_scroll |-> FALSE,
                 auto_hide_scroll |-> TRUE]

SmallEnv ==
    [ids             |-> {"X"},
     areas           |-> {default_area,
                          [default_area EXCEPT !.always_show_scroll = TRUE],
                          [default_area EXCEPT !.auto_hide_scroll = FALSE,
                                               !.max_height = F(3)]},
     uis             |-> {[available |-> rect_of(0, 10, 100, 14),
                           clip_rect |-> rect_of(0, 0, 100, 100)]},
     content_sizes   |-> {vec2(F(50), F(0)), vec2(F(50), F(4)), vec2(F(50), F(8))},
     mouse_positions |-> {None, Some(pos2(F(5), F(11))),
                          Some(pos2(F(92), F(11))), Some(pos2(F(92), F(13))),
                          Some(pos2(F(92), F(40)))},
     mouse_moves     |-> {-1, 0, 1},
     scroll_deltas   |-> {-3, 0, 3}]

\* The wheel scenario: content (100, 1000) in a viewport 200 high
ScenarioWheels == <<50, 5000, -5000>>

ScenarioEnv ==
    [ids             |-> {"X"},
     areas           |-> {default_area},
     uis             |-> {[available |-> rect_of(0, 0, 116, 200),
                           clip_rect |-> rect_of(0, 0, 116, 200)]},
     content_sizes   |-> {vec2(F(100), F(1000))},
     mouse_positions |-> {None, Some(pos2(F(5), F(11)))},
     mouse_moves     |-> {0},
     scroll_deltas   |-> {-5000, 0, 50, 5000}]

\* Parents whose clip rectangle ends at, beyond, before and inside the
\* available rectangle; contents shorter than, as high as and higher than
\* the viewport
ClipEnv ==
    [ids             |-> {"X"},
     areas           |-> {default_area,
                          [default_area EXCEPT !.auto_hide_scroll = FALSE]},
     uis             |-> {[available |-> rect_of(0, 10, 100, 14),
                           clip_rect |-> rect_of(0, 0, 100, 100)],
                          [available |-> rect_of(0, 10, 100, 14),
                           clip_rect |-> rect_of(0, 0, 120, 100)],
                          [available |-> rect_of(0, 10, 100, 14),
                           clip_rect |-> rect_of(0, 0, 60, 12)],
                          [available |-> rect_of(0, 10, 100, 14),
                           clip_rect |-> rect_of(20, 11, 90, 13)]},
     content_sizes   |-> {vec2(F(50), F(2)), vec2(F(50), F(4)), vec2(F(50), F(8))},
     mouse_positions |-> {None, Some(pos2(F(5), F(11))), Some(pos2(F(92), F(11)))},
     mouse_moves     |-> {0, 1},
     scroll_deltas   |-> {-3, 0}]

\* Two scroll areas of one interface, shown one after the other or one
\* inside the other
TreeEnv ==
    [ids             |-> {"X", "Y"},
     areas           |-> {default_area},
     uis             |-> {[available |-> rect_of(0, 10, 100, 14),
                           clip_rect |-> rect_of(0, 0, 100, 100)]},
     content_sizes   |-> {vec2(F(50), F(4)), vec2(F(50), F(8))},
     mouse_positions |-> {None, Some(pos2(F(5), F(11)))},
     mouse_moves     |-> {0},
     scroll_deltas   |-> {-3, 0, 3}]

----------------------------------------------------------------------------
(* The frames *)

NoInput ==
    [mouse_pos |-> None, mouse_move |-> vec2(F(0), F(0)),
     scroll_delta |-> vec2(F(0), F(0)),
     mouse_down |-> FALSE, mouse_pressed |-> FALSE, mouse_released |-> FALSE]

\* what a later frame remembers of a finish() call
Summary(r) ==
    [content_size |-> r.content_size,
     inner_height |-> height(r.inner_rect),
     state |-> r.state,
     show_scroll_this_frame |-> r.show_scroll_this_frame,
     shown |-> r.shown,
     track_click |-> r.track_click]

InitIn(e) ==
    /\ env = e
    /\ tree \in [e.ids -> [cfg : e.areas, ui : e.uis]]
    /\ scroll_areas = << >>
    /\ active_id = None
    /\ input = NoInput
    /\ in_frame = FALSE
    /\ stack = << >>
    /\ last = [id \in e.ids |-> None]
    /\ prev = [id \in e.ids |-> None]
    /\ scenario = 0

Init == InitIn(SmallEnv)

\* The input layer delivers the next frame's snapshot; a button that is up
\* ends whatever interaction held the active slot.
BeginFrame ==
    /\ ~in_frame
    /\ in_frame' = TRUE
    /\ \E pos \in env.mouse_positions, mv \in env.mouse_moves,
          delta \in env.scroll_deltas, down \in BOOLEAN :
          /\ input' = [mouse_pos |-> pos,
                       mouse_move |-> vec2(F(0), F(mv)),
                       scroll_delta |-> vec2(F(0), F(delta)),
                       mouse_down |-> down,
                       mouse_pressed |-> down /\ ~input.mouse_down,
                       mouse_released |-> ~down /\ input.mouse_down]
          /\ active_id' = IF down THEN active_id ELSE None
    /\ UNCHANGED <<scroll_areas, stack, last, prev, scenario, tree, env>>

\* The frame ends with no show() in progress: what the areas did in it
\* becomes their previous frame, and only the button's state is carried on.
EndFrame ==
    /\ in_frame
    /\ stack = << >>
    /\ in_frame' = FALSE
    /\ input' = [NoInput EXCEPT !.mouse_down = input.mouse_down]
    /\ prev' = [id \in env.ids |->
                  IF last[id] # None THEN Some(Summary(last[id][1])) ELSE prev[id]]
    /\ last' = [id \in env.ids |-> None]
    /\ scenario' = IF \E id \in env.ids : last[id] # None THEN scenario ELSE -1
    /\ UNCHANGED <<scroll_areas, active_id, stack, tree, env>>

\* Another widget of the interface is pressed and claims the empty slot.
OtherWidgetInteract ==
    /\ in_frame
    /\ input.mouse_pressed
    /\ input.mouse_pos # None
    /\ active_id = None
    /\ active_id' = Other
    /\ UNCHANGED <<scroll_areas, input, in_frame, stack, last, prev, scenario, tree, env>>

\* show(): self.prepare(ui), for an area not yet shown in this frame
Prepare(id) ==
    /\ in_frame
    /\ last[id] = None
    /\ \A i \in 1..Len(stack) : stack[i].id # id
    /\ stack' = Append(stack, prepare(tree[id].cfg, tree[id].ui, id, scroll_areas))
    /\ UNCHANGED <<scroll_areas, active_id, input, in_frame, last, prev, scenario, tree, env>>

\* the next value of the scenario counter: a frame of the scenario is one
\* with the pointer over the area, nothing active or pressed, and the next
\* wheel delta of ScenarioWheels; any other frame leaves the scenario.
ScenarioStep(r) ==
    IF /\ scenario \in 0..(Len(ScenarioWheels) - 1)
       /\ input.scroll_delta.y = F(ScenarioWheels[scenario + 1])
       /\ contains_mouse(r.outer_rect, input)
       /\ r.slot_before = None /\ ~input.mouse_pressed
       /\ r.content_size = vec2(F(100), F(1000))
       /\ height(r.inner_rect) = F(200)
    THEN scenario + 1
    ELSE -1

\* show(): Self::finish(ui, prepared), for the innermost area in progress,
\* once its contents have been added and measure content_size
Finish ==
    /\ stack # << >>
    /\ \E content_size \in env.content_sizes :
       \E r \in {finish(stack[Len(stack)], content_size, input, active_id)} :
          /\ r.state.offset.y[2] <= MaxDenominator
          /\ scroll_areas' = InsertState(scroll_areas, r.id, r.state)
          /\ active_id' = r.active_id
          /\ last' = [last EXCEPT ![r.id] = Some(r)]
          /\ scenario' = ScenarioStep(r)
    /\ stack' = SubSeq(stack, 1, Len(stack) - 1)
    /\ UNCHANGED <<input, in_frame, prev, tree, env>>

Next ==
    \/ BeginFrame
    \/ EndFrame
    \/ OtherWidgetInteract
    \/ \E id \in env.ids : Prepare(id)
    \/ Finish

Spec == Init /\ [][Next]_vars

InitScenario == InitIn(ScenarioEnv)

SpecScenario == InitScenario /\ [][Next]_vars

InitClip == InitIn(ClipEnv)

SpecClip == InitClip /\ [][Next]_vars

InitTree == InitIn(TreeEnv)

SpecTree == InitTree /\ [][Next]_vars

----------------------------------------------------------------------------
(* What the claims speak of *)

\* area id has finished in the current frame
Ran(id) == last[id] # None

\* the scroll bar's paint commands were emitted by the run r
Drawn(r) == r.paint # << >>

\* the track, then the handle
TrackAndHandle(r) ==
    /\ Len(r.paint) = 2
    /\ r.paint[1].cmd = "track"
    /\ r.paint[2].cmd = "handle"

\* the legal range of offset.y in the run r is [0, MaxOffset(r)]
MaxOffset(r) == max(F(0), sub(r.content_size.y, height(r.inner_rect)))

ClampToRange(y, r) == max(F(0), min(y, MaxOffset(r)))

\* nothing is active when finish starts, and nothing is pressed in the frame
NoInteraction(r) == r.slot_before = None /\ ~r.input.mouse_pressed

\* the pointer's y is within [inner_rect.top, inner_rect.bottom]
PointerInTrack(r) ==
    /\ r.input.mouse_pos # None
    /\ le(top(r.inner_rect), r.input.mouse_pos[1].y)
    /\ le(r.input.mouse_pos[1].y, bottom(r.inner_rect))

\* d * C / L for the run r
ScaledMove(r) ==
    div(mul(r.input.mouse_move.y, r.content_size.y), height(r.inner_rect))

\* the visible flag stored by the previous finish of id (false if none)
PrevVisible(id) == prev[id] # None /\ prev[id][1].state.show_scroll

----------------------------------------------------------------------------
(* C1: after every finish, the offset.y written to the store satisfies      *)
(* 0 <= offset.y <= max(0, content_size.y - inner_rect.height), with that   *)
(* frame's content height and inner height.                                 *)
C1_OffsetInRange ==
    \A id \in env.ids :
        Ran(id) =>
            /\ id \in DOMAIN scroll_areas
            /\ le(F(0), scroll_areas[id].offset.y)
            /\ le(scroll_areas[id].offset.y, MaxOffset(last[id][1]))

\* a finish whose interaction overshot a non-empty range, and one whose
\* content is shorter than the viewport
C1_Witness ==
    \E id \in env.ids :
        /\ Ran(id)
        /\ lt(F(0), MaxOffset(last[id][1]))
        /\ lt(MaxOffset(last[id][1]), last[id][1].pre_clamp)
        /\ scroll_areas[id].offset.y = MaxOffset(last[id][1])

(* C2, as claimed: the wheel deltas +50, +5000, -5000 leave offset.y at     *)
(* 50, then 800, then 0.                                                    *)
C2_ScenarioAsClaimed ==
    \A id \in DOMAIN scroll_areas :
        /\ scenario = 1 => scroll_areas[id].offset.y = F(50)
        /\ scenario = 2 => scroll_areas[id].offset.y = F(800)
        /\ scenario = 3 => scroll_areas[id].offset.y = F(0)

(* C2, amended: the wheel delta is subtracted, so with content height 1000, *)
(* inner height 200 and offset.y = 0 at the start, the wheel deltas +50,    *)
(* +5000, -5000 leave the stored offset.y at 0, then 0, then 800.           *)
C2_ScenarioAsCoded ==
    \A id \in DOMAIN scroll_areas :
        /\ scenario = 1 => scroll_areas[id].offset.y = F(0)
        /\ scenario = 2 => scroll_areas[id].offset.y = F(0)
        /\ scenario = 3 => scroll_areas[id].offset.y = F(800)

C2_Witness ==
    /\ scenario = 3
    /\ \E id \in env.ids : Ran(id) /\ last[id][1].wheel_applied

(* C3: with the pointer over the outer rectangle, nothing active and nothing *)
(* pressed, the wheel delta w is subtracted from offset.y before clamping,   *)
(* and the stored value is old - w clamped into the legal range.             *)
C3_WheelSubtracts ==
    \A id \in env.ids :
        (/\ Ran(id)
         /\ contains_mouse(last[id][1].outer_rect, last[id][1].input)
         /\ NoInteraction(last[id][1]))
        => LET r == last[id][1]
               old_minus_w == sub(r.loaded.offset.y, r.input.scroll_delta.y)
           IN  /\ r.pre_clamp = old_minus_w
               /\ scroll_areas[id].offset.y = ClampToRange(old_minus_w, r)

\* a wheel delta of +3 took the offset down by 3, the clamp not binding
C3_Witness ==
    \E id \in env.ids :
        /\ Ran(id)
        /\ contains_mouse(last[id][1].outer_rect, last[id][1].input)
        /\ NoInteraction(last[id][1])
        /\ last[id][1].input.scroll_delta.y = F(3)
        /\ le(F(3), last[id][1].loaded.offset.y)
        /\ scroll_areas[id].offset.y = sub(last[id][1].loaded.offset.y, F(3))

(* C4, as claimed: whenever the scrollbar identity is the active interaction *)
(* when finish runs and the pointer's y is within the track, the offset      *)
(* changes (pre-clamp) by d * C / L.                                         *)
C4_DragAsClaimed ==
    \A id \in env.ids :
        (/\ Ran(id)
         /\ last[id][1].slot_before = with(id, "vertical")
         /\ PointerInTrack(last[id][1]))
        => last[id][1].pre_clamp
              = add(last[id][1].wheeled, ScaledMove(last[id][1]))

(* C4, amended: in a finish that shows the scroll bar and finds the handle   *)
(* active, the offset changes (pre-clamp) by exactly d * C / L if the        *)
(* pointer's y is within [inner_rect.top, inner_rect.bottom], and not at all *)
(* if it is outside or there is no pointer position; in a finish that does   *)
(* not show the scroll bar, an active scrollbar identity changes nothing.    *)
C4_HandleDragScaled ==
    \A id \in env.ids :
        Ran(id) =>
            LET r == last[id][1]
            IN  /\ (r.shown /\ r.handle_interact.active /\ PointerInTrack(r))
                      => r.pre_clamp = add(r.wheeled, ScaledMove(r))
                /\ (r.shown /\ r.handle_interact.active /\ ~PointerInTrack(r))
                      => r.pre_clamp = r.wheeled
                /\ (~r.shown /\ r.slot_before = with(id, "vertical"))
                      => r.pre_clamp = r.wheeled
                /\ (r.shown /\ r.slot_before = with(id, "vertical"))
                      => r.handle_interact.active

\* a held handle dragged by d # 0 with C / L # 1
C4_Witness ==
    \E id \in env.ids :
        /\ Ran(id)
        /\ last[id][1].slot_before = with(id, "vertical")
        /\ last[id][1].handle_drag
        /\ PointerInTrack(last[id][1])
        /\ last[id][1].input.mouse_move.y = F(1)
        /\ ScaledMove(last[id][1]) = F(2)
        /\ scroll_areas[id].offset.y = add(last[id][1].loaded.offset.y, F(2))

(* C5: a finish with the same content size and inner height as the previous *)
(* one, zero wheel delta, zero pointer movement, nothing active and nothing *)
(* pressed stores the offset.y the previous finish stored.                  *)
C5_Idempotent ==
    \A id \in env.ids :
        (/\ Ran(id)
         /\ prev[id] # None
         /\ prev[id][1].content_size = last[id][1].content_size
         /\ prev[id][1].inner_height = height(last[id][1].inner_rect)
         /\ last[id][1].input.scroll_delta.y = F(0)
         /\ last[id][1].input.mouse_move.y = F(0)
         /\ NoInteraction(last[id][1]))
        => scroll_areas[id].offset.y = prev[id][1].state.offset.y

\* the second of two such frames, at a scrolled offset
C5_Witness ==
    \E id \in env.ids :
        /\ Ran(id)
        /\ prev[id] # None
        /\ prev[id][1].content_size = last[id][1].content_size
        /\ prev[id][1].inner_height = height(last[id][1].inner_rect)
        /\ last[id][1].input.scroll_delta.y = F(0)
        /\ last[id][1].input.mouse_move.y = F(0)
        /\ NoInteraction(last[id][1])
        /\ last[id][1].input.mouse_pos # None
        /\ lt(F(0), prev[id][1].state.offset.y)
        /\ scroll_areas[id].offset.y = prev[id][1].state.offset.y

(* C6, as claimed: in any frame with content_size.y = inner_rect.height and *)
(* always_show_scroll false, the content is not too small and no scroll bar *)
(* is drawn, whatever the preceding frames were.                            *)
C6_HiddenAsClaimed ==
    \A id \in env.ids :
        (/\ Ran(id)
         /\ last[id][1].content_size.y = height(last[id][1].inner_rect)
         /\ ~last[id][1].always_show_scroll)
        => /\ ~last[id][1].content_is_too_small
           /\ ~Drawn(last[id][1])

(* C6, amended: in such a frame the content is not too small, show_scroll   *)
(* is stored false, and the scroll bar is drawn only if the visible flag    *)
(* stored by the previous finish is true (the one-frame grace).             *)
C6_HiddenUnlessGrace ==
    \A id \in env.ids :
        (/\ Ran(id)
         /\ last[id][1].content_size.y = height(last[id][1].inner_rect)
         /\ ~last[id][1].always_show_scroll)
        => /\ ~last[id][1].content_is_too_small
           /\ ~scroll_areas[id].show_scroll
           /\ (Drawn(last[id][1]) <=> PrevVisible(id))

\* content exactly as high as the viewport, after a frame without scroll bar
C6_Witness ==
    \E id \in env.ids :
        /\ Ran(id)
        /\ last[id][1].content_size.y = height(last[id][1].inner_rect)
        /\ ~last[id][1].always_show_scroll
        /\ prev[id] # None
        /\ ~PrevVisible(id)
        /\ ~Drawn(last[id][1])

(* C7: with always_show_scroll, every finish emits the track and the handle *)
(* and stores show_scroll = true, also when the content fits and on the     *)
(* first frame of an identity.                                              *)
C7_AlwaysShown ==
    \A id \in env.ids :
        (Ran(id) /\ last[id][1].always_show_scroll)
        => /\ TrackAndHandle(last[id][1])
           /\ scroll_areas[id].show_scroll

\* the first frame of an identity, its content shorter than the viewport
C7_Witness ==
    \E id \in env.ids :
        /\ Ran(id)
        /\ last[id][1].always_show_scroll
        /\ prev[id] = None
        /\ lt(last[id][1].content_size.y, height(last[id][1].inner_rect))
        /\ TrackAndHandle(last[id][1])

(* C8: the state a prepare loads for an identity is the state the previous  *)
(* finish of that identity wrote (the default state if there was none).     *)
C8_RoundTrip ==
    \A i \in 1..Len(stack) :
        stack[i].state = IF prev[stack[i].id] # None
                         THEN prev[stack[i].id][1].state
                         ELSE DefaultState

\* a session that loaded a scrolled offset and a true show_scroll
C8_Witness ==
    \E i \in 1..Len(stack) :
        /\ prev[stack[i].id] # None
        /\ stack[i].state = prev[stack[i].id][1].state
        /\ lt(F(0), stack[i].state.offset.y)
        /\ stack[i].state.show_scroll

(* C9: the scroll bar is drawn in a frame iff show_scroll_this_frame holds  *)
(* in it or the visible flag stored by the previous finish is true; so a    *)
(* frame without show_scroll_this_frame draws it iff the previous frame had *)
(* show_scroll_this_frame.                                                  *)
C9_OneFrameGrace ==
    \A id \in env.ids :
        Ran(id) =>
            LET r == last[id][1]
                show_this == \/ lt(height(r.inner_rect), r.content_size.y)
                             \/ r.always_show_scroll
            IN  /\ Drawn(r) <=> (show_this \/ PrevVisible(id))
                /\ (prev[id] # None /\ ~show_this)
                      => (Drawn(r) <=> prev[id][1].show_scroll_this_frame)

\* the grace frame, and the frame after it
C9_Witness ==
    \E id \in env.ids :
        /\ Ran(id)
        /\ prev[id] # None
        /\ ~last[id][1].show_scroll_this_frame
        /\ ~prev[id][1].show_scroll_this_frame
        /\ prev[id][1].shown
        /\ ~Drawn(last[id][1])

(* C10, as claimed: after every finish the stored visible flag is true      *)
(* exactly when that finish emitted the scroll bar's paint commands.        *)
C10_VisibleAsClaimed ==
    \A id \in env.ids :
        Ran(id) => (scroll_areas[id].show_scroll <=> Drawn(last[id][1]))

(* C10, amended: after every finish the stored visible flag is true exactly *)
(* when content_size.y > inner_rect.height or always_show_scroll held in    *)
(* that call; a true flag implies the scroll bar was drawn, and a scroll    *)
(* bar drawn with the flag stored false is the grace frame.                 *)
C10_VisibleIsShowThisFrame ==
    \A id \in env.ids :
        Ran(id) =>
            LET r == last[id][1]
            IN  /\ scroll_areas[id].show_scroll
                      <=> (\/ lt(height(r.inner_rect), r.content_size.y)
                           \/ r.always_show_scroll)
                /\ scroll_areas[id].show_scroll => Drawn(r)
                /\ (Drawn(r) /\ ~scroll_areas[id].show_scroll) => PrevVisible(id)

\* the grace frame: drawn, and stored as not visible
C10_Witness ==
    \E id \in env.ids :
        /\ Ran(id)
        /\ Drawn(last[id][1])
        /\ ~scroll_areas[id].show_scroll
        /\ PrevVisible(id)

(* C11: in a single finish at most one of the content region ("area"), the  *)
(* handle and the track is reported active; the content region and the      *)
(* scrollbar identity ("vertical") are never both active in a frame, and    *)
(* the slot after the call holds the identity of the region that is active. *)
C11_OneRegionActive ==
    \A id \in env.ids :
        Ran(id) =>
            LET r == last[id][1]
            IN  /\ ~(r.content_interact.active /\ r.handle_interact.active)
                /\ ~(r.content_interact.active /\ r.scroll_bg_interact.active)
                /\ ~(r.handle_interact.active /\ r.scroll_bg_interact.active)
                /\ r.content_interact.active => r.active_id = with(id, "area")
                /\ (r.handle_interact.active \/ r.scroll_bg_interact.active)
                      => r.active_id = with(id, "vertical")

\* a held drag of the content carried over the handle: the handle stays idle
C11_Witness ==
    \E id \in env.ids :
        /\ Ran(id)
        /\ last[id][1].shown
        /\ last[id][1].content_interact.active
        /\ contains_mouse(last[id][1].handle_rect, last[id][1].input)
        /\ ~last[id][1].handle_interact.active
        /\ ~last[id][1].scroll_bg_interact.active

(* C12: the wheel changes offset.y only if the pointer is inside the outer  *)
(* rectangle and the active slot is empty when the wheel is looked at; it   *)
(* is ignored whenever the slot is held, by another widget, by the area's   *)
(* own content drag, or by a claim the content region made earlier in the   *)
(* same finish.                                                             *)
C12_WheelArbitration ==
    \A id \in env.ids :
        Ran(id) =>
            LET r == last[id][1]
            IN  /\ r.wheeled # r.dragged
                      => /\ contains_mouse(r.outer_rect, r.input)
                         /\ r.slot_before = None
                         /\ r.content_interact.active_id = None
                         /\ r.wheeled = sub(r.dragged, r.input.scroll_delta.y)
                /\ (r.slot_before # None \/ r.content_interact.active_id # None)
                      => r.wheeled = r.dragged

\* a press on the content claims the slot in the very finish whose frame
\* brings a wheel delta with the pointer over the area: the wheel is ignored
C12_Witness ==
    \E id \in env.ids :
        /\ Ran(id)
        /\ last[id][1].slot_before = None
        /\ last[id][1].input.mouse_pressed
        /\ last[id][1].content_interact.active
        /\ contains_mouse(last[id][1].outer_rect, last[id][1].input)
        /\ last[id][1].input.scroll_delta.y = F(-3)
        /\ last[id][1].wheeled = last[id][1].dragged
        /\ lt(F(0), MaxOffset(last[id][1]))

\* the pointer is pressed on the track of the run r, outside its handle
PressedOnTrack(r) ==
    /\ r.input.mouse_pressed
    /\ contains_mouse(r.outer_scroll_rect, r.input)
    /\ ~contains_mouse(r.handle_rect, r.input)

\* the finish of id in this frame follows one that clicked the track, with
\* the button held since
FollowsTrackClick(id) ==
    /\ Ran(id)
    /\ prev[id] # None
    /\ prev[id][1].track_click
    /\ last[id][1].slot_before = with(id, "vertical")
    /\ ~last[id][1].input.mouse_pressed

(* C13, as claimed: in a frame that follows a press on the track, with the  *)
(* button held since and the pointer's y within the track, the interaction  *)
(* is processed as a handle drag: offset.y changes (pre-clamp) by the       *)
(* scaled pointer movement.                                                 *)
C13_HeldAsClaimed ==
    \A id \in env.ids :
        (FollowsTrackClick(id) /\ PointerInTrack(last[id][1]))
        => /\ last[id][1].handle_drag
           /\ last[id][1].pre_clamp
                 = add(last[id][1].wheeled, ScaledMove(last[id][1]))

\* what C13 says of one finish
C13_InFinish ==
    \A id \in env.ids :
        Ran(id) =>
            LET r == last[id][1]
                held == r.slot_before = with(id, "vertical")
            IN  /\ r.track_click
                      => /\ r.shown /\ PressedOnTrack(r)
                         /\ r.active_id = with(id, "vertical")
                /\ (r.shown /\ PressedOnTrack(r)
                       /\ r.content_interact.active_id = None)
                      => r.track_click
                /\ held => /\ ~r.track_click
                           /\ r.active_id = with(id, "vertical")
                /\ (held /\ r.shown /\ r.input.mouse_pos # None)
                      => /\ r.handle_drag
                         /\ r.pre_clamp
                               = IF PointerInTrack(r)
                                 THEN add(r.wheeled, ScaledMove(r))
                                 ELSE r.wheeled
                /\ (held /\ ~r.shown)
                      => ~r.handle_drag /\ r.pre_clamp = r.wheeled

\* the scrollbar identity leaves the slot only when a frame begins with the
\* button up
C13_EndsOnRelease ==
    \A id \in env.ids :
        (active_id = with(id, "vertical") /\ active_id' # active_id)
        => /\ ~in_frame /\ in_frame'
           /\ ~input'.mouse_down /\ input'.mouse_released
           /\ active_id' = None

(* C13, amended: the handle and the track are registered under the one      *)
(* identity "vertical". A press on the track outside the handle, with the   *)
(* slot empty, claims the slot for that identity and is a track click. In   *)
(* every following frame while the button stays held the slot stays with    *)
(* that identity and no track click is repeated; in such a frame that shows *)
(* the scroll bar the interaction is processed as a handle drag (with a     *)
(* pointer position within the track, offset.y changes pre-clamp by the     *)
(* scaled pointer movement), and in one that does not show the scroll bar   *)
(* it changes nothing. The identity leaves the slot only when a frame       *)
(* begins with release reported.                                            *)
C13_TrackThenHandle == []C13_InFinish /\ [][C13_EndsOnRelease]_vars

\* the frame after a track click, the button held: the handle is dragged
C13_Witness ==
    \E id \in env.ids :
        /\ FollowsTrackClick(id)
        /\ PointerInTrack(last[id][1])
        /\ last[id][1].handle_drag
        /\ ~last[id][1].track_click
        /\ last[id][1].input.mouse_move.y = F(1)
        /\ last[id][1].pre_clamp = add(last[id][1].wheeled, F(2))

\* the handle the run r redraws, from its offset after the clamp of the block
Redrawn(r) ==
    handle_rect_of(clamp_shown(r.pre_clamp, r.content_size, r.inner_rect),
                   r.content_size, r.inner_rect, r.outer_rect)

\* the y of the middle of a rectangle
CenterY(rect) == div(add(top(rect), bottom(rect)), F(2))

\* a track click assigns the inverse remap of pointerY - handleHeight / 2,
\* and the result is clamped
TrackClickAssigns(r) ==
    /\ r.pre_clamp
          = remap(sub(r.input.mouse_pos[1].y, div(height(r.handle_rect), F(2))),
                  <<top(r.inner_rect), bottom(r.inner_rect)>>,
                  <<F(0), r.content_size.y>>)
    /\ r.state.offset.y = ClampToRange(r.pre_clamp, r)

\* when the clamp does not bind, the redrawn handle is centered on the pointer
CenteredUnlessClamped(r) ==
    clamp_shown(r.pre_clamp, r.content_size, r.inner_rect) = r.pre_clamp
    => CenterY(Redrawn(r)) = r.input.mouse_pos[1].y

(* C14: when a press lands inside the track but outside the handle,         *)
(* offset.y is assigned the inverse remap of pointerY - handleHeight / 2    *)
(* from [inner_rect.top, inner_rect.bottom] to [0, content_size.y],         *)
(* whatever the wheel did earlier in the same finish, and is then clamped;  *)
(* when the clamp does not bind, the redrawn handle is vertically centered  *)
(* on the pointer.                                                          *)
C14_TrackClickCenters ==
    \A id \in env.ids :
        (Ran(id) /\ last[id][1].track_click)
        => /\ TrackClickAssigns(last[id][1])
           /\ CenteredUnlessClamped(last[id][1])

\* the content region of the run r would be active if it were registered:
\* pressed inside it with the slot empty, or holding the slot since before
ContentWouldBeActive(r) ==
    IF r.input.mouse_pressed
    THEN contains_mouse(r.inner_rect, r.input) /\ r.slot_before = None
    ELSE r.slot_before = with(r.id, "area")

(* C15: the content region ("area") is registered as interactive only in    *)
(* frames where content_size.y > inner_rect.height; there, when it holds    *)
(* the active interaction, offset.y (pre-clamp) is decreased by the         *)
(* pointer's vertical movement of that frame; in frames where the content   *)
(* fits, a press or drag over the content neither claims the active slot    *)
(* for the area nor changes offset.y.                                       *)
C15_DragToScroll ==
    \A id \in env.ids :
        Ran(id) =>
            LET r == last[id][1]
                too_small == lt(height(r.inner_rect), r.content_size.y)
            IN  /\ r.content_interact.active
                      <=> (too_small /\ ContentWouldBeActive(r))
                /\ r.content_interact.active
                      => /\ r.dragged = sub(r.loaded.offset.y, r.input.mouse_move.y)
                         /\ r.pre_clamp = r.dragged
                         /\ r.active_id = with(id, "area")
                /\ ~r.content_interact.active => r.dragged = r.loaded.offset.y
                /\ ~too_small
                      => /\ r.content_interact.active_id = r.slot_before
                         /\ r.dragged = r.loaded.offset.y
                         /\ (r.active_id = with(id, "area")
                               => r.slot_before = with(id, "area"))

\* the content fits and is pressed with the slot empty and the pointer
\* moving: nothing is claimed and nothing is dragged
C15_Witness ==
    \E id \in env.ids :
        /\ Ran(id)
        /\ ~lt(height(last[id][1].inner_rect), last[id][1].content_size.y)
        /\ last[id][1].input.mouse_pressed
        /\ last[id][1].slot_before = None
        /\ contains_mouse(last[id][1].inner_rect, last[id][1].input)
        /\ last[id][1].input.mouse_move.y = F(1)
        /\ last[id][1].active_id = None
        /\ last[id][1].dragged = last[id][1].loaded.offset.y

\* the width prepare is to choose for id: 16 if the previous finish stored a
\* true visible flag or auto_hide_scroll is off, else 0
WidthFor(id) ==
    IF PrevVisible(id) \/ ~tree[id].cfg.auto_hide_scroll THEN F(16) ELSE F(0)

(* C16: the width prepare chooses is 16 if the visible flag stored by the   *)
(* previous finish is true or auto_hide_scroll is false, and 0 otherwise    *)
(* (so 0 on the first frame of a new identity with auto_hide_scroll), with  *)
(* no value in between; the inner size is (available width - width,         *)
(* min(available height, max_height)); and the outer rectangle of that      *)
(* frame's finish is the inner rectangle widened by that same width.        *)
C16_ScrollBarWidth ==
    /\ \A i \in 1..Len(stack) :
          LET p == stack[i]
              ui == tree[p.id].ui
              cfg == tree[p.id].cfg
          IN  /\ p.current_scroll_bar_width = WidthFor(p.id)
              /\ p.current_scroll_bar_width \in {F(0), F(16)}
              /\ p.inner_rect.min = ui.available.min
              /\ size(p.inner_rect)
                    = vec2(sub(width(ui.available), p.current_scroll_bar_width),
                           min(height(ui.available), cfg.max_height))
    /\ \A id \in env.ids :
          Ran(id) =>
              LET r == last[id][1]
              IN  /\ r.current_scroll_bar_width = WidthFor(id)
                  /\ r.outer_rect.min = r.inner_rect.min
                  /\ size(r.outer_rect)
                        = vadd(size(r.inner_rect),
                               vec2(r.current_scroll_bar_width, F(0)))
                  /\ r.reserved = size(r.outer_rect)

\* the frame in which the bar appears: prepare chose width 0 for an identity
\* with no finish before it, and finish used 0 for the outer rectangle
\* although the content turned out too small
C16_Witness ==
    \E id \in env.ids :
        /\ Ran(id)
        /\ prev[id] = None
        /\ tree[id].cfg.auto_hide_scroll
        /\ last[id][1].current_scroll_bar_width = F(0)
        /\ last[id][1].content_is_too_small
        /\ width(last[id][1].outer_rect) = width(tree[id].ui.available)

HandleOfStored(id, r) ==
    expand(handle_rect_of(scroll_areas[id].offset.y, r.content_size,
                          r.inner_rect, r.outer_rect), F(-2))

(* C18: whenever the scroll bar is drawn, the handle rectangle emitted in   *)
(* that finish is computed from the offset after interaction and clamping,  *)
(* and equals the handle rectangle that the offset stored at the end of the *)
(* same finish would produce, also when the content is shorter than the     *)
(* viewport.                                                                *)
C18_NoFrameDelay ==
    \A id \in env.ids :
        (Ran(id) /\ Drawn(last[id][1]))
        => /\ TrackAndHandle(last[id][1])
           /\ last[id][1].paint[2].rect = expand(Redrawn(last[id][1]), F(-2))
           /\ last[id][1].paint[2].rect = HandleOfStored(id, last[id][1])

\* content shorter than the viewport: the clamp of the scroll bar block
\* leaves a negative offset, the stored one is 0, and an interaction moved
\* the handle in this finish; the handle painted is that of the stored offset
C18_Witness ==
    \E id \in env.ids :
        /\ Ran(id)
        /\ Drawn(last[id][1])
        /\ lt(last[id][1].content_size.y, height(last[id][1].inner_rect))
        /\ lt(clamp_shown(last[id][1].pre_clamp, last[id][1].content_size,
                          last[id][1].inner_rect), F(0))
        /\ scroll_areas[id].offset.y = F(0)
        /\ last[id][1].handle_rect # Redrawn(last[id][1])
        /\ last[id][1].paint[2].rect = HandleOfStored(id, last[id][1])

\* the entry of id in the store, if there is one
StoreEntry(id) ==
    IF id \in DOMAIN scroll_areas THEN Some(scroll_areas[id]) ELSE None

\* an identity that never finished has no entry, and a session prepared for
\* an identity without entry read offset = 0, visible = false
C19_NoEntryReadsDefault ==
    /\ \A id \in env.ids :
          (prev[id] = None /\ last[id] = None) => StoreEntry(id) = None
    /\ \A i \in 1..Len(stack) :
          StoreEntry(stack[i].id) = None => stack[i].state = DefaultState

\* a step changes the entry of id only if it is the finish of id, which
\* writes the state it computed; a prepare changes no entry; and no step
\* removes an entry
C19_OnlyOwnEntry ==
    /\ \A id \in env.ids :
          /\ StoreEntry(id) # None => StoreEntry(id)' # None
          /\ StoreEntry(id)' # StoreEntry(id)
                => /\ stack # << >>
                   /\ stack[Len(stack)].id = id
                   /\ stack' = SubSeq(stack, 1, Len(stack) - 1)
                   /\ last'[id] # None
                   /\ StoreEntry(id)' = Some(last'[id][1].state)
    /\ Len(stack') > Len(stack) => scroll_areas' = scroll_areas
    /\ DOMAIN scroll_areas' \subseteq env.ids

(* C19: a finish for identity X inserts or overwrites only X's entry; the   *)
(* entries of all other identities are left unchanged, also when several    *)
(* scroll areas, or nested ones, run in the same frame; prepare never       *)
(* writes to the store (an identity never finished has no entry and reads   *)
(* as offset = 0, visible = false); and no entry is ever removed.           *)
C19_StoreFrame == []C19_NoEntryReadsDefault /\ [][C19_OnlyOwnEntry]_vars

\* Y has just finished inside X, whose session is still in progress: X's
\* entry, written in an earlier frame, is still there, and differs from Y's
C19_Witness ==
    /\ Len(stack) = 1
    /\ stack[1].id = "X"
    /\ Ran("Y")
    /\ StoreEntry("X") # None
    /\ StoreEntry("Y") = Some(last["Y"][1].state)
    /\ stack[1].state = scroll_areas["X"]
    /\ lt(F(0), scroll_areas["X"].offset.y)
    /\ scroll_areas["Y"].offset.y # scroll_areas["X"].offset.y

\* the gestures that changed offset.y in the run r
Gestures(r) ==
    {g \in {"content drag", "wheel", "handle drag", "track click"} :
        \/ g = "content drag" /\ r.dragged # r.loaded.offset.y
        \/ g = "wheel" /\ r.wheeled # r.dragged
        \/ g = "handle drag" /\ r.handle_drag /\ r.pre_clamp # r.wheeled
        \/ g = "track click" /\ r.track_click}

(* C20: in a single finish at most one of the four gestures (content drag,  *)
(* wheel, handle drag, track click) contributes to offset.y; in particular  *)
(* a wheel delta applied while the active slot was empty is never combined  *)
(* in the same finish with a handle drag or a track click whose press       *)
(* claims the slot later in that call.                                      *)
C20_OneGesture ==
    \A id \in env.ids :
        Ran(id) => Cardinality(Gestures(last[id][1])) <= 1

====
